---- MODULE Spec2Model ----
(***************************************************************************)
(* Table-access and row-mutation facade of the inventory assistant         *)
(* (SupabaseController, assistant/db) and its sibling function-style       *)
(* facade (gemini/db), modelled over an abstract PostgREST-like backend.   *)
(***************************************************************************)
EXTENDS Integers, Sequences, FiniteSets, TLC

VARIABLES
    inventory,    \* rows of the expirable table "inventory"
    supplies,     \* rows of the deletable table "supplies"
    clock,        \* the wall clock read by new Date()
    sessionUser,  \* the user of the backend's auth session (NULL: none)
    userId,       \* SupabaseController.userId, the cached identity
    initPc,       \* position of the constructor's pending getUserId()
    rd,           \* the readExpirableDataFromTable call in progress
    call,         \* the last completed single-request facade call
    hist,         \* history: successful soft deletes, the session at construction
    proc,         \* the process: environment, module evaluation, the singleton
    http          \* the HTTP request being handled and its pipeline invocation

vars == <<inventory, supplies, clock, sessionUser, userId, initPc, rd, call, hist,
          proc, http>>

-----------------------------------------------------------------------------
(* Bounds of the model *)

MaxRows == 2      \* a table holds at most this many rows (ids 1..MaxRows)
MaxClock == 2     \* instants 1..MaxClock
MaxUsers == 1     \* identities 1..MaxUsers
MaxItems == 2     \* itemsPerPage ranges over 1..MaxItems
MaxPage == 2      \* page ranges over 1..MaxPage

-----------------------------------------------------------------------------
(* Values *)

NULL == 0                       \* SQL NULL / JS null in a numeric column
NoError == "null"               \* error: null
Ids == 1..MaxRows
Users == 1..MaxUsers
Instants == 1..MaxClock
Owner == Users \cup {NULL}
Expiry == Instants \cup {NULL}
BackendMessages == {"permission denied", ""}

InventoryData == [id : Ids, user_id : Owner, expiry_date : Expiry]
SuppliesData == [id : Ids, is_deleted : BOOLEAN]
DataFetchOptions == [itemsPerPage : 1..MaxItems, page : 1..MaxPage]

Min(a, b) == IF a <= b THEN a ELSE b

IdsOf(rows) == {r.id : r \in rows}
SeqIds(s) == {s[i].id : i \in 1..Len(s)}

-----------------------------------------------------------------------------
(* The backend: select / order / range / count *)

\* .order("id", { ascending: true })
RECURSIVE OrderById(_)
OrderById(rows) ==
    IF rows = {} THEN <<>>
    ELSE LET m == CHOOSE r \in rows : \A q \in rows : r.id <= q.id
         IN  <<m>> \o OrderById(rows \ {m})

\* .range(from, to): zero-indexed, both ends inclusive
Range(s, from, to) == SubSeq(s, from + 1, Min(to + 1, Len(s)))

\* SQL comparison with a NULL column is never true
Gte(col, v) == col # NULL /\ col >= v
Lt(col, v) == col # NULL /\ col < v

\* upsert: INSERT ... ON CONFLICT (id) DO UPDATE SET <the payload's columns>.
\* The conflict target is the primary key carried by the payload itself; a
\* payload without id, or with an id no row has, inserts a new row whose
\* other columns take their defaults.
Merge(row, payload) ==
    [f \in DOMAIN row |-> IF f \in DOMAIN payload THEN payload[f] ELSE row[f]]

FreshId(rows) == Cardinality(rows) + 1

Upsert(rows, payload, default) ==
    IF "id" \in DOMAIN payload /\ payload.id \in IdsOf(rows)
    THEN {IF r.id = payload.id THEN Merge(r, payload) ELSE r : r \in rows}
    ELSE rows \cup {Merge([default EXCEPT !.id = FreshId(rows)], payload)}

InventoryDefault == [id |-> NULL, user_id |-> NULL, expiry_date |-> NULL]
SuppliesDefault == [id |-> NULL, is_deleted |-> FALSE]

\* responses of the backend
ErrorResponse(m) == [error |-> m, dataNull |-> TRUE, data |-> <<>>, count |-> 0]
DataResponse(s, n) == [error |-> NoError, dataNull |-> FALSE, data |-> s, count |-> n]
NullResponse == [error |-> NoError, dataNull |-> TRUE, data |-> <<>>, count |-> 0]
ErrorResponses == {ErrorResponse(m) : m \in BackendMessages}
NoResponse == NullResponse
NoRequest == [op |-> "none", table |-> "none", payload |-> <<>>, eq |-> NULL]

-----------------------------------------------------------------------------
(* The facade's read path *)

Threw(m) == [threw |-> TRUE, message |-> m, data |-> <<>>, count |-> 0]
Returned(s, n) == [threw |-> FALSE, message |-> NoError, data |-> s, count |-> n]
NoFetch == Returned(<<>>, 0)

StartRange(options) == options.itemsPerPage * (options.page - 1)

\* variant: a range end one past the page
EndRangeOffByOne(options) == options.itemsPerPage * options.page
EndRange(options) == options.itemsPerPage * options.page - 1

\* what the backend answers to select(count: exact) + order + range
SelectResponse(matching, options) ==
    DataResponse(Range(OrderById(matching), StartRange(options), EndRange(options)),
                 Cardinality(matching))

\* handleResponse: throw on an error, else data || [] and count || 0
HandleResponse(response) ==
    IF response.error # NoError
    THEN Threw(response.error)
    ELSE Returned(IF response.dataNull THEN <<>> ELSE response.data, response.count)

\* fetchTableData: the catch block logs and rethrows
FetchTableData(response) == HandleResponse(response)

\* the three predicates of readExpirableDataFromTable
\* variant: current chosen by date alone
CurrentFilterNoOwner(r, now) == Gte(r.expiry_date, now)
CurrentFilter(r, now) == r.user_id = NULL /\ Gte(r.expiry_date, now)
PersonalFilter(r) == r.user_id # NULL
ExpiredFilter(r, now) == r.user_id = NULL /\ Lt(r.expiry_date, now)

\* error.message || "An error occurred"
ErrorText(m) == IF m = "" THEN "An error occurred" ELSE m

EmptyBucket == [data |-> <<>>, count |-> 0]
Bucket(f) == [data |-> f.data, count |-> f.count]
NewExpirableState ==
    [loading |-> TRUE, error |-> NoError, current |-> EmptyBucket,
     personal |-> EmptyBucket, expired |-> EmptyBucket]

\* no categorized read in progress
Idle ==
    [pc |-> "idle", options |-> [itemsPerPage |-> 1, page |-> 1],
     data |-> NewExpirableState, failed |-> "none", dirty |-> FALSE]

\* what a public facade call handed back to its caller
Result(type, val) == [threw |-> FALSE, type |-> type, val |-> val]
Raised(m) == [threw |-> TRUE, type |-> "string", val |-> m]

\* the record of a completed call: its request, the backend's response, what
\* fetchTableData produced inside it (reads) and what the caller received
Call(op, request, response, f, result) ==
    [op |-> op, request |-> request, response |-> response, fetched |-> f,
     result |-> result]
NoCall == Call("none", NoRequest, NoResponse, NoFetch, Result("undefined", NULL))

\* history kept for the properties: the ids whose soft delete reported
\* success, and the session's user at the time the controller was constructed
NoHistory == [deletedOk |-> {}, session |-> NULL]
ConstructedWith(u) == [NoHistory EXCEPT !.session = u]

\* the responses a select over `matching` can get
SelectResponses(matching, options) ==
    {SelectResponse(matching, options)} \cup ErrorResponses

\* variant: the catch block starts again from empty buckets
CaughtReset(data, f) ==
    [NewExpirableState EXCEPT !.error = ErrorText(f.message), !.loading = FALSE]
\* catch (error) { data.error = ... } finally { data.loading = false; return data }
Caught(data, f) == [data EXCEPT !.error = ErrorText(f.message), !.loading = FALSE]

\* readExpirableDataFromTable is called: the state object is created
ReadExpirableBegin(options) ==
    /\ rd.pc = "idle"
    /\ rd' = [pc |-> "current", options |-> options, data |-> NewExpirableState,
              failed |-> "none", dirty |-> FALSE]
    /\ UNCHANGED <<proc, http, inventory, supplies, clock, sessionUser, userId, initPc, call, hist>>

\* data.current = await this.fetchTableData(... is user_id null, gte expiry_date now)
FetchCurrent ==
    /\ rd.pc = "current"
    /\ \E response \in SelectResponses({r \in inventory : CurrentFilter(r, clock)},
                                       rd.options) :
          LET f == FetchTableData(response) IN
          rd' = IF f.threw
                THEN [rd EXCEPT !.pc = "done", !.failed = "current",
                                !.data = Caught(rd.data, f)]
                ELSE [rd EXCEPT !.pc = "personal", !.data.current = Bucket(f)]
    /\ UNCHANGED <<proc, http, inventory, supplies, clock, sessionUser, userId, initPc, call, hist>>

\* data.personal = await this.fetchTableData(... not user_id is null)
FetchPersonal ==
    /\ rd.pc = "personal"
    /\ \E response \in SelectResponses({r \in inventory : PersonalFilter(r)},
                                       rd.options) :
          LET f == FetchTableData(response) IN
          rd' = IF f.threw
                THEN [rd EXCEPT !.pc = "done", !.failed = "personal",
                                !.data = Caught(rd.data, f)]
                ELSE [rd EXCEPT !.pc = "expired", !.data.personal = Bucket(f)]
    /\ UNCHANGED <<proc, http, inventory, supplies, clock, sessionUser, userId, initPc, call, hist>>

\* data.expired = await this.fetchTableData(... is user_id null, lt expiry_date now)
FetchExpired ==
    /\ rd.pc = "expired"
    /\ \E response \in SelectResponses({r \in inventory : ExpiredFilter(r, clock)},
                                       rd.options) :
          LET f == FetchTableData(response) IN
          rd' = IF f.threw
                THEN [rd EXCEPT !.pc = "done", !.failed = "expired",
                                !.data = Caught(rd.data, f)]
                ELSE [rd EXCEPT !.pc = "done", !.data.expired = Bucket(f),
                                !.data.loading = FALSE]
    /\ UNCHANGED <<proc, http, inventory, supplies, clock, sessionUser, userId, initPc, call, hist>>

\* the caller takes the returned state
ReadExpirableReturn ==
    /\ rd.pc = "done"
    /\ rd' = Idle
    /\ UNCHANGED <<proc, http, inventory, supplies, clock, sessionUser, userId, initPc, call, hist>>

\* time passes
Tick ==
    /\ clock < MaxClock
    /\ clock' = clock + 1
    /\ UNCHANGED <<proc, http, inventory, supplies, sessionUser, userId, initPc, rd, call, hist>>

-----------------------------------------------------------------------------
(* The facade's mutations *)

\* a write that lands after a categorized read began and before its caller
\* has taken the result
Dirtied(rows) ==
    IF rd.pc # "idle" /\ rows # inventory
    THEN [rd EXCEPT !.dirty = TRUE]
    ELSE rd

UpsertRequest(table, payload, id) ==
    [op |-> "upsert", table |-> table, payload |-> payload, eq |-> id]

\* what a write leaves in the table and answers: the statement runs (the model
\* caps the table at MaxRows rows), or the backend reports an error
WriteOutcomes(rows, written) ==
    {[rows |-> written, response |-> NullResponse] :
        x \in IF Cardinality(written) <= MaxRows THEN {1} ELSE {}}
    \cup {[rows |-> rows, response |-> e] : e \in ErrorResponses}

\* variant: the identity read from the session at the time of the claim
ClaimIdentityFresh == sessionUser
\* the identity claimRowInTable stamps: this.userId
ClaimIdentity == userId

\* try { if (response.error) throw ...; return true } catch { return false }
ClaimRowInTableResult(response) == Result("boolean", response.error = NoError)

\* claimRowInTable(table, id): upsert({ user_id: this.userId }).eq("id", id)
ClaimRowInTable(id) ==
    LET payload == [user_id |-> ClaimIdentity] IN
    \E w \in WriteOutcomes(inventory, Upsert(inventory, payload, InventoryDefault)) :
        /\ inventory' = w.rows
        /\ call' = Call("claim", UpsertRequest("inventory", payload, id), w.response,
                        NoFetch, ClaimRowInTableResult(w.response))
        /\ rd' = Dirtied(w.rows)
        /\ UNCHANGED <<proc, http, supplies, clock, sessionUser, userId, initPc, hist>>

\* try { if (response.error) throw ...; return true } catch { return false }
DeleteRowInTableResult(response) == Result("boolean", response.error = NoError)

\* deleteRowInTable(table, id): upsert({ is_deleted: true }).eq("id", id),
\* on the deletable table supplies
DeleteRowInTable(id) ==
    LET payload == [is_deleted |-> TRUE] IN
    \E w \in WriteOutcomes(supplies, Upsert(supplies, payload, SuppliesDefault)) :
        /\ supplies' = w.rows
        /\ call' = Call("softDelete", UpsertRequest("supplies", payload, id),
                        w.response, NoFetch, DeleteRowInTableResult(w.response))
        /\ hist' = IF call'.result.val
                   THEN [hist EXCEPT !.deletedOk = @ \cup {id}]
                   ELSE hist
        /\ UNCHANGED <<proc, http, inventory, clock, sessionUser, userId, initPc, rd>>

\* the partial rows a caller can pass for a supplies row: any subset of the
\* columns; an id is one a row has or the next one
SuppliesPayloads ==
    {[is_deleted |-> d] : d \in BOOLEAN}
    \cup {[id |-> i, is_deleted |-> d] :
            i \in 1..Min(FreshId(supplies), MaxRows), d \in BOOLEAN}
    \cup {[id |-> i] : i \in 1..Min(FreshId(supplies), MaxRows)}

\* try { if (response.error) throw ...; return true } catch { return false }
UpdateRowInTableResult(response) == Result("boolean", response.error = NoError)

\* updateRowInTable(table, id, data): upsert(data).eq("id", id), here on supplies
UpdateRowInTable(id, data) ==
    \E w \in WriteOutcomes(supplies, Upsert(supplies, data, SuppliesDefault)) :
        /\ supplies' = w.rows
        /\ call' = Call("update", UpsertRequest("supplies", data, id), w.response,
                        NoFetch, UpdateRowInTableResult(w.response))
        /\ UNCHANGED <<proc, http, inventory, clock, sessionUser, userId, initPc, rd, hist>>

\* insert(data).select(): a plain INSERT; an id some row already has violates
\* the primary key. The answer carries the inserted row, unless the backend
\* returns no representation of it.
InsertOutcomes(rows, data, default) ==
    IF "id" \in DOMAIN data /\ data.id \in IdsOf(rows)
    THEN {[rows |-> rows, response |-> e] : e \in ErrorResponses}
    ELSE LET row == Merge([default EXCEPT !.id = FreshId(rows)], data) IN
         {[rows |-> rows \cup {row}, response |-> r] :
             r \in IF Cardinality(rows) < MaxRows
                   THEN {DataResponse(<<row>>, 0), DataResponse(<<>>, 0), NullResponse}
                   ELSE {}}
         \cup {[rows |-> rows, response |-> e] : e \in ErrorResponses}

\* variant: the inserted record is not checked before its id is read
AddRowInTableUnchecked(response) ==
    IF response.error # NoError
    THEN Result("string", response.error)
    ELSE Result("number", IF response.dataNull \/ Len(response.data) = 0
                          THEN NULL ELSE response.data[1].id)
\* try { if (response.error) throw; if (!insertedRecord) throw; return id }
\* catch { return error.message }
AddRowInTableResult(response) ==
    IF response.error # NoError
    THEN Result("string", response.error)
    ELSE IF response.dataNull \/ Len(response.data) = 0
         THEN Result("string", "No data returned from insert operation")
         ELSE Result("number", response.data[1].id)

\* AddRowInTable(table, data): insert(data).select(), here on supplies
AddRowInTable(data) ==
    \E w \in InsertOutcomes(supplies, data, SuppliesDefault) :
        /\ supplies' = w.rows
        /\ call' = Call("insert",
                        [op |-> "insert", table |-> "supplies", payload |-> data,
                         eq |-> NULL],
                        w.response, NoFetch, AddRowInTableResult(w.response))
        /\ UNCHANGED <<proc, http, inventory, clock, sessionUser, userId, initPc, rd, hist>>

-----------------------------------------------------------------------------
(* Single-request reads *)

SelectRequest(table, options) ==
    [op |-> "select", table |-> table, payload |-> options, eq |-> NULL]

\* readDeletableDataFromTable: fetchTableData(table, options, () => {}, columns)
DeletableFilter(r) == TRUE

\* try { data.current = await fetch } catch { data.error = ... }
\* finally { data.loading = false; return data }
EntityState(f) ==
    [loading |-> FALSE,
     error |-> IF f.threw THEN ErrorText(f.message) ELSE NoError,
     bucket |-> IF f.threw THEN EmptyBucket ELSE Bucket(f)]

ReadDeletableDataFromTable(options) ==
    \E response \in SelectResponses({r \in supplies : DeletableFilter(r)}, options) :
        LET f == FetchTableData(response) IN
        /\ call' = Call("readDeletable", SelectRequest("supplies", options), response,
                        f, Result("current", EntityState(f)))
        /\ UNCHANGED <<proc, http, inventory, supplies, clock, sessionUser, userId, initPc, rd, hist>>

\* gemini/db fetchTableData: select(...).eq("is_deleted", false), then filters
ActiveFilter(r) == r.is_deleted = FALSE

\* gemini/db handleResponse and fetchTableData (catch: log and rethrow)
ActiveHandleResponse(response) ==
    IF response.error # NoError
    THEN Threw(response.error)
    ELSE Returned(IF response.dataNull THEN <<>> ELSE response.data, response.count)

\* gemini/db readDataFromTable: the bucket is named active
ActiveReadDataFromTable(options) ==
    \E response \in SelectResponses({r \in supplies : ActiveFilter(r)}, options) :
        LET f == ActiveHandleResponse(response) IN
        /\ call' = Call("readActive", SelectRequest("supplies", options), response,
                        f, Result("active", EntityState(f)))
        /\ UNCHANGED <<proc, http, inventory, supplies, clock, sessionUser, userId, initPc, rd, hist>>

\* .eq(seperator, seperatorValue.join(",")): one value compares as itself; the
\* joined text of several is no value of an integer column
EqResponses(rows, column, values) ==
    IF Len(values) = 1
    THEN {DataResponse(OrderById({r \in rows : r[column] = values[1]}), 0),
          NullResponse} \cup ErrorResponses
    ELSE ErrorResponses

\* variant: the catch block rethrows
ReadRowsFromTableRethrow(response) ==
    IF response.error # NoError
    THEN Raised(response.error)
    ELSE Result("rows", IF response.dataNull THEN <<>> ELSE response.data)
\* try { if (response.error || !response.data) throw; return response.data }
\* catch { return [] }
ReadRowsFromTableResult(response) ==
    IF response.error # NoError \/ response.dataNull
    THEN Result("rows", <<>>)
    ELSE Result("rows", response.data)

\* readRowsFromTable(table, seperator, seperatorValue, columns)
ReadRowsFromTable(column, values) ==
    \E response \in EqResponses(supplies, column, values) :
        /\ call' = Call("readRows",
                        [op |-> "select", table |-> "supplies", payload |-> values,
                         eq |-> column],
                        response, NoFetch, ReadRowsFromTableResult(response))
        /\ UNCHANGED <<proc, http, inventory, supplies, clock, sessionUser, userId, initPc, rd, hist>>

-----------------------------------------------------------------------------
(* The process: environment, module evaluation, the facade singleton *)

MaxCalls == 3     \* getInstance is called at most this many times

EnvNames == {"SUPABASE_URL", "SUPABASE_ANON_KEY", "GOOGLE_AI_API_KEY"}
\* Deno.env.get(name) is undefined when the variable is absent
Undefined == "<undefined>"
EnvValues == {Undefined, "", "set"}
\* !v for v : string | undefined
Falsy(v) == v = Undefined \/ v = ""

\* the two database modules a function can import as ./db.ts
DbModules == {"controller", "functions"}

\* createClient(url, key) of the backend library refuses a missing url or key
CreateClientThrows(url, key) == Falsy(url) \/ Falsy(key)

\* the process before any module has been evaluated
Starting(env, db) ==
    [env |-> env, db |-> db, pc |-> "db", instance |-> NULL, instances |-> 0,
     clients |-> <<>>, lookups |-> 0, calls |-> 0, got |-> NULL, error |-> NoError]

\* new SupabaseController(a, b): this.client = createClient(a, b), then
\* this.checkSession() and this.getUserId() are started
Construct(p, url, key) ==
    [p EXCEPT !.instances = @ + 1,
              !.clients = Append(@, [url |-> url, key |-> key]),
              !.lookups = @ + 2]

\* variant: every call constructs a controller
GetInstanceAlwaysNew(p, url, key) ==
    LET q == [Construct(p, url, key) EXCEPT !.instance = p.instances + 1]
    IN  [q EXCEPT !.calls = @ + 1, !.got = q.instance]
\* getInstance: if (!instance) instance = new SupabaseController(...); return instance
GetInstanceResult(p, url, key) ==
    LET q == IF p.instance = NULL
             THEN [Construct(p, url, key) EXCEPT !.instance = p.instances + 1]
             ELSE p
    IN  [q EXCEPT !.calls = @ + 1, !.got = q.instance]

\* module evaluation stops with an uncaught error
Fatal(p, m) == [p EXCEPT !.pc = "failed", !.error = m]

\* the controller module: the environment check, the class, then the module's
\* own supabaseController = SupabaseController.getInstance(url, key)
EvalDbController ==
    /\ proc.pc = "db"
    /\ proc.db = "controller"
    /\ LET url == proc.env["SUPABASE_URL"]
           key == proc.env["SUPABASE_ANON_KEY"]
       IN  IF Falsy(url) \/ Falsy(key)
           THEN /\ proc' = Fatal(proc, "Supabase URL and Anon Key must be provided")
                /\ UNCHANGED <<userId, initPc, hist>>
           ELSE /\ proc' = [GetInstanceResult(proc, url, key) EXCEPT !.pc = "llm"]
                /\ userId' = NULL
                /\ initPc' = "pending"
                /\ hist' = [hist EXCEPT !.session = sessionUser]
    /\ UNCHANGED <<inventory, supplies, clock, sessionUser, rd, call, http>>

\* the function-style module: a missing value is only logged, and
\* createClient(url, key) runs with what the environment gave
EvalDbFunctions ==
    /\ proc.pc = "db"
    /\ proc.db = "functions"
    /\ LET url == proc.env["SUPABASE_URL"]
           key == proc.env["SUPABASE_ANON_KEY"]
       IN  proc' = IF CreateClientThrows(url, key)
                   THEN Fatal(proc, IF Falsy(url) THEN "supabaseUrl is required."
                                    ELSE "supabaseKey is required.")
                   ELSE [proc EXCEPT !.pc = "llm",
                                     !.clients = Append(@, [url |-> url, key |-> key])]
    /\ UNCHANGED <<inventory, supplies, clock, sessionUser, userId, initPc, rd, call,
                   hist, http>>

\* variant: the key is read and not checked
GoogleKeyUnchecked(env) == FALSE
\* if (!GoogleAIAPIKey)
GoogleKeyMissing(env) == Falsy(env["GOOGLE_AI_API_KEY"])

\* the pipeline module: its imports (./db.ts) are evaluated before its body,
\* whose first statement checks GOOGLE_AI_API_KEY
EvalLlm ==
    /\ proc.pc = "llm"
    /\ proc' = IF GoogleKeyMissing(proc.env)
               THEN Fatal(proc, "Google AI API Key must be provided")
               ELSE [proc EXCEPT !.pc = "index"]
    /\ UNCHANGED <<inventory, supplies, clock, sessionUser, userId, initPc, rd, call,
                   hist, http>>

\* the entry module: Deno.serve(handler) / serve(handler) registers the handler
EvalIndex ==
    /\ proc.pc = "index"
    /\ proc' = [proc EXCEPT !.pc = "serving"]
    /\ UNCHANGED <<inventory, supplies, clock, sessionUser, userId, initPc, rd, call,
                   hist, http>>

\* a later SupabaseController.getInstance(url, key)
GetInstance(url, key) ==
    /\ proc.db = "controller"
    /\ proc.pc \in {"llm", "index", "serving"}
    /\ proc.calls < MaxCalls
    /\ proc' = GetInstanceResult(proc, url, key)
    /\ UNCHANGED <<inventory, supplies, clock, sessionUser, userId, initPc, rd, call,
                   hist, http>>

\* a process whose modules have all been evaluated
Serving ==
    [env |-> [n \in EnvNames |-> "set"], db |-> "controller", pc |-> "serving",
     instance |-> 1, instances |-> 1, clients |-> <<[url |-> "set", key |-> "set"]>>,
     lookups |-> 2, calls |-> 1, got |-> 1, error |-> NoError]
ServingFunctions ==
    [env |-> [n \in EnvNames |-> "set"], db |-> "functions", pc |-> "serving",
     instance |-> NULL, instances |-> 0, clients |-> <<[url |-> "set", key |-> "set"]>>,
     lookups |-> 0, calls |-> 0, got |-> NULL, error |-> NoError]

-----------------------------------------------------------------------------
(* The question-answering pipeline and the HTTP entry point *)

MaxQuantity == 2  \* a lot holds at most this many units

\* a lot without quantity (item.quantity is null or undefined)
NoQuantity == -1
\* the inventory columns the pipeline reads, with the soft-delete flag
InventoryLots ==
    [id : Ids, supply_id : Ids, quantity : (1..MaxQuantity) \cup {NoQuantity},
     is_deleted : BOOLEAN]

\* the decimal digits
DigitChars == <<"0", "1", "2", "3", "4", "5", "6", "7", "8", "9">>
DigitValue(c) == (CHOOSE i \in 1..10 : DigitChars[i] = c) - 1
IsDigit(c) == \E i \in 1..10 : DigitChars[i] = c
\* the texts the first-stage model call can answer: "0", an id (of a catalog
\* row or not), and texts around them: leading blank, leading zero, trailing
\* letter, no digit at all
Contents ==
    {<<DigitChars[i + 1]>> : i \in 0..MaxRows}
    \cup {<<" ", "0">>, <<"0", "0">>, <<"0", "a">>, <<"0", "1">>, <<"1", "a">>, <<"a">>,
          <<"a", "0">>}

\* parseInt(text): leading blanks are skipped, the longest prefix of decimal
\* digits is read, and a text without such a prefix gives NaN
NaN == -1
RECURSIVE SkipBlanks(_)
SkipBlanks(s) ==
    IF s # <<>> /\ Head(s) = " " THEN SkipBlanks(Tail(s)) ELSE s
RECURSIVE DigitPrefix(_)
DigitPrefix(s) ==
    IF s # <<>> /\ IsDigit(Head(s)) THEN <<Head(s)>> \o DigitPrefix(Tail(s)) ELSE <<>>
RECURSIVE Decimal(_)
Decimal(d) ==
    IF d = <<>> THEN 0
    ELSE 10 * Decimal(SubSeq(d, 1, Len(d) - 1)) + DigitValue(d[Len(d)])
ParseInt(s) ==
    LET d == DigitPrefix(SkipBlanks(s))
    IN  IF d = <<>> THEN NaN ELSE Decimal(d)

NoMedication == "Please Try Again. No Medication Found."
SuppliesFailed == "Error fetching supplies data. Try Again."
Answer == "answer"                 \* the text of the second-stage model call
LlmError == "model call failed"    \* the message of a rejected model call
NoResult == "<none>"

\* { itemsPerPage: 100, page: 1, keywords: "" }
CatalogOptions == [itemsPerPage |-> 100, page |-> 1]

\* inventoryRows.reduce((total, item) => total + (item.quantity ?? 0), 0)
Coalesce(q) == IF q = NoQuantity THEN 0 ELSE q
RECURSIVE TotalQuantity(_)
TotalQuantity(rows) ==
    IF rows = <<>> THEN 0
    ELSE Coalesce(Head(rows).quantity) + TotalQuantity(Tail(rows))

\* the structured summary handed to the second stage
NoContext == [quantity |-> 0, length |-> 0, supply |-> NULL]
Context(supplyRow, inventoryRows) ==
    [quantity |-> TotalQuantity(inventoryRows), length |-> Len(inventoryRows),
     supply |-> supplyRow[1].id]

\* .eq(column, [supplyId].join(",")): the text "NaN" is no value of an integer
\* column, so the backend refuses the request
EqResponsesFor(rows, column, supplyId) ==
    IF supplyId = NaN THEN ErrorResponses ELSE EqResponses(rows, column, <<supplyId>>)

\* one entry per backend read or model call the pipeline issued
Issued(name, ok) == [call |-> name, ok |-> ok]

\* request bodies: text that is not JSON (an empty body included), the JSON
\* values null and 0 / false / "", and JSON objects by their question member
Bodies ==
    {[kind |-> k, question |-> Undefined] : k \in {"malformed", "null", "falsy"}}
    \cup {[kind |-> "object", question |-> q] : q \in {Undefined, "", "q"}}
Methods == {"OPTIONS", "POST", "GET"}

\* await req.json()
ReqJsonThrows(body) == body.kind = "malformed"
\* const { question } = value: null cannot be destructured
DestructureThrows(body) == body.kind = "null"
\* !body on the parsed value
BodyFalsy(body) == body.kind \in {"null", "falsy"}

NoExchange ==
    [pc |-> "idle", handler |-> "none", method |-> "none",
     body |-> [kind |-> "malformed", question |-> Undefined], parsed |-> FALSE,
     invoked |-> FALSE,
     log |-> <<>>, content |-> <<>>, supplyId |-> NaN, supplyRow |-> <<>>,
     inventoryRows |-> <<>>, context |-> NoContext, result |-> NoResult,
     raised |-> NoError, responses |-> <<>>]

\* response headers
AllowOrigin == "Access-Control-Allow-Origin" :> "*"
AllowHeaders ==
    "Access-Control-Allow-Headers" :> "apikey,authorization,content-type,x-client-info"
JsonHeaders == ("Content-Type" :> "application/json") @@ AllowOrigin @@ AllowHeaders
PreflightHeaders ==
    AllowOrigin @@ ("Access-Control-Allow-Methods" :> "POST, OPTIONS")
    @@ AllowHeaders @@ ("Access-Control-Max-Age" :> "86400")
ServePreflightHeaders ==
    AllowOrigin @@ ("Access-Control-Allow-Methods" :> "GET, POST, OPTIONS")
    @@ ("Access-Control-Allow-Headers" :>
            "Content-Type, Authorization, x-client-info, apikey")
ServeJsonHeaders == ("Content-Type" :> "application/json") @@ AllowOrigin
ServeTextHeaders == ("Content-Type" :> "text/plain") @@ AllowOrigin

\* new Response(body, { status, headers }); the status defaults to 200
NoBody == [kind |-> "none", message |-> <<>>]
JsonMessage(m) == [kind |-> "json", message |-> m]     \* JSON.stringify({ message })
TextBody(m) == [kind |-> "text", message |-> <<m>>]
Response(status, headers, body) ==
    [status |-> status, headers |-> headers, body |-> body]

\* the Deno.serve handler's responses
Preflight == Response(204, PreflightHeaders, NoBody)
MissingQuestion ==
    Response(400, JsonHeaders, JsonMessage(<<"Missing 'question' in request body">>))
Success(result) == Response(200, JsonHeaders, JsonMessage(<<result>>))
\* catch (error): SyntaxError gives "Invalid JSON in request body", any other
\* Error its own message; the answer is `Error: ${errorMessage}` with status 500
CaughtResponse(syntaxError, m) ==
    Response(500, JsonHeaders,
             JsonMessage(<<"Error: ",
                           IF syntaxError THEN "Invalid JSON in request body" ELSE m>>))

\* the serve handler's responses
ServePreflight == Response(200, ServePreflightHeaders, NoBody)
ServeEmptyBody == Response(200, ServeTextHeaders, TextBody("Empty body"))
ServeSuccess(result) == Response(200, ServeJsonHeaders, JsonMessage(<<result>>))
ServeCaught == Response(200, ServeTextHeaders, TextBody("Error processing request"))

Received(handler, method, body) ==
    [NoExchange EXCEPT !.pc = "received", !.handler = handler, !.method = method,
                       !.body = body]
\* await req.json() has been called
Parsed(x) == [x EXCEPT !.parsed = TRUE]
Respond(x, response) == [x EXCEPT !.pc = "done", !.responses = Append(@, response)]
Invoke(x) == [x EXCEPT !.pc = "readSupplies", !.invoked = TRUE]

\* Deno.serve(async (req) => ...) up to the call of the pipeline
DenoServe(method, body) ==
    /\ proc.pc = "serving"
    /\ http.pc \in {"idle", "done"}
    /\ LET x == Received("Deno.serve", method, body)
           y == Parsed(x)
       IN  http' = IF method = "OPTIONS" THEN Respond(x, Preflight)
                   ELSE IF ReqJsonThrows(body)
                        THEN Respond(y, CaughtResponse(TRUE, "Unexpected token"))
                   ELSE IF DestructureThrows(body)
                        THEN Respond(y, CaughtResponse(FALSE,
                                 "Cannot destructure property 'question' of null"))
                   ELSE IF Falsy(body.question) THEN Respond(y, MissingQuestion)
                   ELSE Invoke(y)
    /\ UNCHANGED <<inventory, supplies, clock, sessionUser, userId, initPc, rd, call,
                   hist, proc>>

\* serve(async (req) => ...) up to the call of the pipeline
Serve(method, body) ==
    /\ proc.pc = "serving"
    /\ http.pc \in {"idle", "done"}
    /\ LET x == Received("serve", method, body)
           y == Parsed(x)
       IN  http' = IF method = "OPTIONS" THEN Respond(x, ServePreflight)
                   ELSE IF ReqJsonThrows(body) THEN Respond(y, ServeCaught)
                   ELSE IF BodyFalsy(body) THEN Respond(y, ServeEmptyBody)
                   ELSE Invoke(y)
    /\ UNCHANGED <<inventory, supplies, clock, sessionUser, userId, initPc, rd, call,
                   hist, proc>>

\* what became of a model call: its text, or a rejection
Rejected == [threw |-> TRUE, content |-> <<>>]
Replied(c) == [threw |-> FALSE, content |-> c]

\* supplyId === 0
\* variant: the parsed number is compared with the text "0"
NotFoundAsText(supplyId) == FALSE
NotFound(supplyId) == supplyId = 0

Logged(x, name, ok) == [x EXCEPT !.log = Append(@, Issued(name, ok))]
Return(x, result) == [x EXCEPT !.pc = "respond", !.result = result]
Throw(x, m) == [x EXCEPT !.pc = "respond", !.raised = m]

\* step 1 of getInventoryInformation: the catalog's id and name columns.
\* With the controller module, readDeletableDataFromTable(...).current.data and
\* no look at its error; with the function-style module, readDataFromTable(...),
\* whose error ends the invocation, and .active.data
ReadSupplies ==
    /\ http.pc = "readSupplies"
    /\ \E response \in SelectResponses(
              IF proc.db = "controller"
              THEN {r \in supplies : DeletableFilter(r)}
              ELSE {r \in supplies : ActiveFilter(r)}, CatalogOptions) :
          LET f == IF proc.db = "controller" THEN FetchTableData(response)
                   ELSE ActiveHandleResponse(response)
              state == EntityState(f)
              x == Logged(http, "readSupplies", ~f.threw)
          IN  http' = IF proc.db = "functions" /\ state.error # NoError
                      THEN Return(x, SuppliesFailed)
                      ELSE [x EXCEPT !.pc = "resolve"]
    /\ UNCHANGED <<inventory, supplies, clock, sessionUser, userId, initPc, rd, call,
                   hist, proc>>

\* idConverterChain.invoke(...), parseInt(response.content.toString()), and
\* the check for 0
Resolve ==
    /\ http.pc = "resolve"
    /\ \E reply \in {Rejected} \cup {Replied(c) : c \in Contents} :
          LET x == Logged(http, "resolve", ~reply.threw)
              supplyId == ParseInt(reply.content)
          IN  http' = IF reply.threw THEN Throw(x, LlmError)
                      ELSE IF NotFound(supplyId)
                           THEN Return([x EXCEPT !.content = reply.content,
                                                 !.supplyId = supplyId],
                                       NoMedication)
                      ELSE [x EXCEPT !.pc = "readSupplyRow",
                                     !.content = reply.content,
                                     !.supplyId = supplyId]
    /\ UNCHANGED <<inventory, supplies, clock, sessionUser, userId, initPc, rd, call,
                   hist, proc>>

\* supplyRow = await readRowsFromTable("supplies", "id", [supplyId], ...)
ReadSupplyRow ==
    /\ http.pc = "readSupplyRow"
    /\ \E response \in EqResponsesFor(supplies, "id", http.supplyId) :
          http' = [Logged(http, "readSupplyRow",
                          response.error = NoError /\ ~response.dataNull)
                     EXCEPT !.pc = "readInventoryRows",
                            !.supplyRow = ReadRowsFromTableResult(response).val]
    /\ UNCHANGED <<inventory, supplies, clock, sessionUser, userId, initPc, rd, call,
                   hist, proc>>

\* inventoryRows = await readRowsFromTable("inventory", "supply_id", [supplyId],
\* ["quantity"]), then the summary; supplyRow[0].type of an empty supplyRow
\* is a TypeError
ReadInventoryRows ==
    /\ http.pc = "readInventoryRows"
    /\ \E response \in EqResponsesFor(inventory, "supply_id", http.supplyId) :
          LET rows == ReadRowsFromTableResult(response).val
              x == [Logged(http, "readInventoryRows",
                           response.error = NoError /\ ~response.dataNull)
                      EXCEPT !.inventoryRows = rows]
          IN  http' = IF Len(http.supplyRow) = 0
                      THEN Throw(x, "Cannot read properties of undefined")
                      ELSE [x EXCEPT !.pc = "summarize",
                                     !.context = Context(http.supplyRow, rows)]
    /\ UNCHANGED <<inventory, supplies, clock, sessionUser, userId, initPc, rd, call,
                   hist, proc>>

\* response2 = await inventoryChain.invoke({ input, context })
Summarize ==
    /\ http.pc = "summarize"
    /\ \E reply \in {Rejected, Replied(<<Answer>>)} :
          LET x == Logged(http, "summarize", ~reply.threw)
          IN  http' = IF reply.threw THEN Throw(x, LlmError) ELSE Return(x, Answer)
    /\ UNCHANGED <<inventory, supplies, clock, sessionUser, userId, initPc, rd, call,
                   hist, proc>>

\* the handler answers with what the pipeline returned or raised
PipelineResponse(x) ==
    IF x.handler = "Deno.serve"
    THEN IF x.raised # NoError THEN CaughtResponse(FALSE, x.raised)
         ELSE Success(x.result)
    ELSE IF x.raised # NoError THEN ServeCaught ELSE ServeSuccess(x.result)

Answered ==
    /\ http.pc = "respond"
    /\ http' = Respond(http, PipelineResponse(http))
    /\ UNCHANGED <<inventory, supplies, clock, sessionUser, userId, initPc, rd, call,
                   hist, proc>>

-----------------------------------------------------------------------------
(* Specification of the expirable table: categorized reads against claims *)

InventoryTables(n) ==
    {{[id |-> i, user_id |-> f[i].o, expiry_date |-> f[i].e] : i \in 1..n} :
        f \in [1..n -> [o : Owner, e : Expiry]]}

Init ==
    /\ inventory \in UNION {InventoryTables(n) : n \in 0..(MaxRows - 1)}
    /\ supplies = {}
    /\ clock = 1
    /\ sessionUser \in Users
    /\ userId = sessionUser
    /\ initPc = "done"
    /\ rd = Idle
    /\ call = NoCall
    /\ hist = ConstructedWith(sessionUser)
    /\ proc = Serving
    /\ http = NoExchange

Next ==
    \/ \E options \in DataFetchOptions : ReadExpirableBegin(options)
    \/ FetchCurrent
    \/ FetchPersonal
    \/ FetchExpired
    \/ ReadExpirableReturn
    \/ Tick
    \/ \E id \in Ids : ClaimRowInTable(id)

Spec == Init /\ [][Next]_vars

-----------------------------------------------------------------------------
(* Specification of the single-request facade calls on the supplies table *)

SuppliesTables(n) ==
    {{[id |-> i, is_deleted |-> f[i]] : i \in 1..n} : f \in [1..n -> BOOLEAN]}

InitFacade ==
    /\ inventory = {}
    /\ supplies \in UNION {SuppliesTables(n) : n \in 0..(MaxRows - 1)}
    /\ clock = 1
    /\ sessionUser \in Users
    /\ userId = sessionUser
    /\ initPc = "done"
    /\ rd = Idle
    /\ call = NoCall
    /\ hist = ConstructedWith(sessionUser)
    /\ proc = Serving
    /\ http = NoExchange

NextFacade ==
    \/ \E data \in SuppliesPayloads : AddRowInTable(data)
    \/ \E id \in Ids, data \in SuppliesPayloads : UpdateRowInTable(id, data)
    \/ \E id \in Ids : DeleteRowInTable(id)
    \/ \E id \in Ids : ClaimRowInTable(id)
    \/ \E options \in DataFetchOptions : ReadDeletableDataFromTable(options)
    \/ \E options \in DataFetchOptions : ActiveReadDataFromTable(options)
    \/ \E id \in Ids : ReadRowsFromTable("id", <<id>>)
    \/ \E id, id2 \in Ids : ReadRowsFromTable("id", <<id, id2>>)

SpecFacade == InitFacade /\ [][NextFacade]_vars

-----------------------------------------------------------------------------
(* Specification of the cached identity: construction, session changes, claims *)

\* constructor: this.getUserId() is started and not awaited; when the lookup
\* resolves it stores the session's user (user?.id ?? null)
GetUserId ==
    /\ initPc = "pending"
    /\ userId' = sessionUser
    /\ initPc' = "done"
    /\ UNCHANGED <<proc, http, inventory, supplies, clock, sessionUser, rd, call, hist>>

\* the backend's session changes: sign-in, sign-out, another user
SessionChange(u) ==
    /\ u # sessionUser
    /\ sessionUser' = u
    /\ UNCHANGED <<proc, http, inventory, supplies, clock, userId, initPc, rd, call, hist>>

InitIdentity ==
    /\ inventory \in UNION {InventoryTables(n) : n \in 0..(MaxRows - 1)}
    /\ supplies = {}
    /\ clock = 1
    /\ sessionUser \in Owner
    /\ userId = NULL
    /\ initPc = "pending"
    /\ rd = Idle
    /\ call = NoCall
    /\ hist = ConstructedWith(sessionUser)
    /\ proc = Serving
    /\ http = NoExchange

NextIdentity ==
    \/ GetUserId
    \/ \E u \in Owner : SessionChange(u)
    \/ \E id \in Ids : ClaimRowInTable(id)

SpecIdentity == InitIdentity /\ [][NextIdentity]_vars

-----------------------------------------------------------------------------
(* Specification of the HTTP entry point over the pipeline: every request,    *)
(* a catalog that lacks the last id, an inventory of at most one lot          *)

LotsTables(n) ==
    {{[id |-> i, supply_id |-> f[i].s, quantity |-> f[i].q, is_deleted |-> f[i].d] :
         i \in 1..n} :
        f \in [1..n -> [s : Ids, q : (1..MaxQuantity) \cup {NoQuantity}, d : BOOLEAN]]}

InitPipeline ==
    /\ inventory \in UNION {LotsTables(n) : n \in 0..1}
    /\ supplies \in SuppliesTables(MaxRows - 1)
    /\ clock = 1
    /\ sessionUser \in Users
    /\ userId = sessionUser
    /\ initPc = "done"
    /\ rd = Idle
    /\ call = NoCall
    /\ hist = ConstructedWith(sessionUser)
    /\ proc \in {Serving, ServingFunctions}
    /\ http = NoExchange

NextPipeline ==
    \/ \E method \in Methods, body \in Bodies : DenoServe(method, body)
    \/ \E method \in Methods, body \in Bodies : Serve(method, body)
    \/ ReadSupplies
    \/ Resolve
    \/ ReadSupplyRow
    \/ ReadInventoryRows
    \/ Summarize
    \/ Answered

SpecPipeline == InitPipeline /\ [][NextPipeline]_vars

-----------------------------------------------------------------------------
(* Specification of the summary: requests that carry a question, over every  *)
(* inventory of up to MaxRows lots                                            *)

InitSummary ==
    /\ inventory \in UNION {LotsTables(n) : n \in 0..MaxRows}
    /\ supplies \in SuppliesTables(MaxRows)
    /\ clock = 1
    /\ sessionUser \in Users
    /\ userId = sessionUser
    /\ initPc = "done"
    /\ rd = Idle
    /\ call = NoCall
    /\ hist = ConstructedWith(sessionUser)
    /\ proc \in {Serving, ServingFunctions}
    /\ http = NoExchange

NextSummary ==
    \/ DenoServe("POST", [kind |-> "object", question |-> "q"])
    \/ ReadSupplies
    \/ Resolve
    \/ ReadSupplyRow
    \/ ReadInventoryRows
    \/ Summarize
    \/ Answered

SpecSummary == InitSummary /\ [][NextSummary]_vars

-----------------------------------------------------------------------------
(* Specification of the process start *)

InitStartup ==
    /\ inventory = {}
    /\ supplies \in SuppliesTables(MaxRows - 1)
    /\ clock = 1
    /\ sessionUser \in Owner
    /\ userId = NULL
    /\ initPc = "none"
    /\ rd = Idle
    /\ call = NoCall
    /\ hist = NoHistory
    /\ proc \in {Starting(env, db) : env \in [EnvNames -> EnvValues], db \in DbModules}
    /\ http = NoExchange

NextStartup ==
    \/ EvalDbController
    \/ EvalDbFunctions
    \/ EvalLlm
    \/ EvalIndex
    \/ \E url, key \in EnvValues : GetInstance(url, key)
    \/ GetUserId
    \/ \E method \in Methods, body \in Bodies : DenoServe(method, body)
    \/ \E method \in Methods, body \in Bodies : Serve(method, body)
    \/ ReadSupplies
    \/ Resolve
    \/ ReadSupplyRow
    \/ ReadInventoryRows
    \/ Summarize
    \/ Answered

SpecStartup == InitStartup /\ [][NextStartup]_vars

-----------------------------------------------------------------------------
(* Properties of the categorized read (checked under Spec) *)

Holds(bucket, r) == \E i \in 1..Len(bucket.data) : bucket.data[i] = r
HoldsId(bucket, id) == id \in SeqIds(bucket.data)

\* the read has returned, no sub-fetch failed, and no write reached the table
\* between the call and its return
CleanRead == rd.pc = "done" /\ rd.failed = "none" /\ ~rd.dirty

\* the requested page is the first one and is as long as the table
PageHoldsAll ==
    rd.options.page = 1 /\ rd.options.itemsPerPage >= Cardinality(inventory)

BucketsHolding(r) ==
    {b \in {"current", "personal", "expired"} : Holds(rd.data[b], r)}

\* C1: on a table that does not change during the call and with a page that
\* holds all rows, readCategorized returns every row of the table in exactly
\* one of the buckets current, personal, expired.
C1_EveryRowInExactlyOneBucket ==
    (CleanRead /\ PageHoldsAll) =>
        \A r \in inventory : Cardinality(BucketsHolding(r)) = 1

\* C2 as stated: when any of the three sub-fetches fails, the returned state
\* has error populated, loading false and all three buckets empty with count 0.
C2_AllBucketsEmptyOnFailure ==
    (rd.pc = "done" /\ rd.failed # "none") =>
        /\ rd.data.error \notin {NoError, ""}
        /\ rd.data.loading = FALSE
        /\ rd.data.current = EmptyBucket
        /\ rd.data.personal = EmptyBucket
        /\ rd.data.expired = EmptyBucket

FailingFetch == rd.pc \in {"current", "personal", "expired"} /\ rd'.failed = rd.pc

\* C2 amended: when a sub-fetch fails the call returns at once with error
\* populated and loading false; the bucket whose fetch failed and the buckets
\* after it are empty with count 0, and the buckets fetched before the failure
\* keep the rows and counts they were given.
C2_FailureKeepsEarlierBuckets ==
    [][FailingFetch =>
         /\ rd'.pc = "done"
         /\ rd'.data.error \notin {NoError, ""}
         /\ rd'.data.loading = FALSE
         /\ rd'.data.current = rd.data.current
         /\ rd'.data.personal = rd.data.personal
         /\ rd'.data.expired = EmptyBucket
         /\ rd.pc \in {"current", "personal"} => rd'.data.personal = EmptyBucket
         /\ rd.pc = "current" => rd'.data.current = EmptyBucket]_vars

\* a read whose third sub-fetch failed after the first had returned rows
C2_Witness ==
    /\ rd.pc = "done"
    /\ rd.failed = "expired"
    /\ rd.data.error # NoError
    /\ rd.data.current.count > 0

Owned == {r \in inventory : r.user_id # NULL}

\* C3: a row whose owner is non-null is never returned in current or expired,
\* whatever its expiry date, and is returned in personal (by a read no fetch of
\* which failed, on an unchanged table, whose first page holds the owned rows).
C3_OwnedRowOnlyInPersonal ==
    rd.pc = "done" =>
        \A r \in Owned :
            /\ ~HoldsId(rd.data.current, r.id)
            /\ ~HoldsId(rd.data.expired, r.id)
            /\ (CleanRead /\ rd.options.page = 1
                  /\ rd.options.itemsPerPage >= Cardinality(Owned))
                 => Holds(rd.data.personal, r)

\* an owned row whose expiry date has passed, returned in personal
C3_Witness ==
    /\ CleanRead
    /\ \E r \in Owned :
          /\ Lt(r.expiry_date, clock)
          /\ Holds(rd.data.personal, r)
          /\ ~Holds(rd.data.expired, r)

\* the last call was a successful claim of a row that a categorized read
\* classifies by its date
ClaimedRows ==
    {r \in inventory : /\ call.op = "claim"
                       /\ call.result.val
                       /\ r.id = call.request.eq
                       /\ r.expiry_date # NULL}

\* C7: after claim(table, id) returned true for a row that was in current or
\* expired, the next readCategorized returns that row in personal and in
\* neither current nor expired.
C7_ClaimedRowMovesToPersonal ==
    (CleanRead /\ PageHoldsAll) =>
        \A r \in ClaimedRows :
            /\ HoldsId(rd.data.personal, r.id)
            /\ ~HoldsId(rd.data.current, r.id)
            /\ ~HoldsId(rd.data.expired, r.id)

-----------------------------------------------------------------------------
(* Properties of the single-request calls (checked under SpecFacade) *)

PageRead == call.op \in {"readDeletable", "readActive"}

\* the rows the page read's query matches: all rows for the controller's
\* deletable read, the rows not soft-deleted for the function-style facade
Matching ==
    IF call.op = "readActive" THEN {r \in supplies : ~r.is_deleted} ELSE supplies

\* zero-indexed position of a matching row in ascending id order
Position(r) == Cardinality({q \in Matching : q.id < r.id})

\* C4: for itemsPerPage >= 1 and page >= 1, fetchPage returns the matching rows
\* at positions itemsPerPage*(page-1) .. itemsPerPage*page-1 of the ascending id
\* order, in that order, hence at most itemsPerPage rows, and count is the
\* number of all matching rows whatever the page.
C4_PageIsRangeAndCountIsTotal ==
    (PageRead /\ ~call.fetched.threw) =>
        LET options == call.request.payload
            data == call.fetched.data
            first == options.itemsPerPage * (options.page - 1)
            last == options.itemsPerPage * options.page - 1
        IN  /\ Len(data) <= options.itemsPerPage
            /\ {data[i] : i \in 1..Len(data)} =
                   {r \in Matching : Position(r) \in first..last}
            /\ \A i, j \in 1..Len(data) : i < j => data[i].id < data[j].id
            /\ call.fetched.count = Cardinality(Matching)
            /\ call.result.val.bucket = [data |-> data, count |-> call.fetched.count]

\* a second page that holds the last of the matching rows
C4_Witness ==
    /\ PageRead
    /\ ~call.fetched.threw
    /\ call.request.payload.page = 2
    /\ Len(call.fetched.data) = 1
    /\ call.fetched.count > Len(call.fetched.data)

\* C5: a categorized read of a deletable table returns in current only rows
\* whose is_deleted flag is false; once softDelete(table, id) has succeeded,
\* row id is in no later read's current bucket nor in its count.
C5_CurrentHoldsNoDeletedRow ==
    (call.op = "readDeletable" /\ ~call.fetched.threw) =>
        LET current == call.result.val.bucket IN
        /\ \A i \in 1..Len(current.data) : current.data[i].is_deleted = FALSE
        /\ \A id \in hist.deletedOk : ~HoldsId(current, id)
        /\ current.count = Cardinality({r \in supplies : ~r.is_deleted})

\* C6: softDelete is idempotent: a softDelete(table, id) that follows a
\* successful softDelete(table, id) leaves the table as the first one left it.
C6_SoftDeleteIdempotent ==
    [][\A id \in Ids :
          (/\ call.op = "softDelete"
           /\ call.request.eq = id
           /\ call.result.val
           /\ DeleteRowInTable(id)) => supplies' = supplies]_vars

Mutation == call.op \in {"insert", "update", "softDelete", "claim"}

-----------------------------------------------------------------------------
(* Properties of the cached identity (checked under SpecIdentity) *)

\* C8: the owner claim writes is the cached userId, which is set once by the
\* constructor's lookup and never read again: whatever the session's user
\* becomes afterwards, a claim stamps the identity captured at initialization.
C8_ClaimStampsCachedIdentity ==
    [][/\ initPc = "done" => userId' = userId
       /\ \A id \in Ids :
             ClaimRowInTable(id) =>
                 /\ call'.request.payload = [user_id |-> userId]
                 /\ call'.result.val =>
                       \E r \in inventory' \ inventory : r.user_id = userId]_vars

\* a successful claim stamped the captured identity after the session's user
\* had become another
C8_Witness ==
    /\ initPc = "done"
    /\ userId # NULL
    /\ sessionUser # userId
    /\ call.op = "claim"
    /\ call.result.val
    /\ call.request.payload.user_id = userId
    /\ \E r \in inventory : r.user_id = userId

-----------------------------------------------------------------------------
(* Properties of the pipeline (checked under SpecPipeline) *)

CallsIssued(name) == {i \in 1..Len(http.log) : http.log[i].call = name}

AnsweredZero == http.content = <<"0">>

\* C11: when the first-stage model call answers "0", the invocation returns the
\* fixed No Medication Found message; the second-stage call is never issued and
\* the catalog read made before the first stage stays the only backend read.
C11_ZeroEndsThePipeline ==
    AnsweredZero =>
        /\ http.pc \in {"respond", "done"}
        /\ http.result = NoMedication
        /\ http.raised = NoError
        /\ CallsIssued("summarize") = {}
        /\ CallsIssued("readSupplyRow") = {}
        /\ CallsIssued("readInventoryRows") = {}
        /\ Len(http.log) = 2

C11_Witness ==
    /\ AnsweredZero
    /\ http.pc = "done"
    /\ http.handler = "Deno.serve"
    /\ http.responses = <<Success(NoMedication)>>
    /\ supplies # {}

-----------------------------------------------------------------------------
(* Disjointness of the buckets (checked under Spec) *)

BucketIds(name) == SeqIds(rd.data[name].data)

\* C20: in the result of one categorized read the buckets current, personal
\* and expired are pairwise disjoint, whatever happens between the sub-fetches
\* (the clock advancing, another request claiming a row).
C20_BucketsPairwiseDisjoint ==
    rd.pc = "done" =>
        /\ BucketIds("current") \cap BucketIds("personal") = {}
        /\ BucketIds("current") \cap BucketIds("expired") = {}
        /\ BucketIds("personal") \cap BucketIds("expired") = {}

-----------------------------------------------------------------------------
(* Properties of the HTTP entry point (checked under SpecPipeline) *)

Requested == http.handler # "none"
NonOptions == Requested /\ http.method # "OPTIONS"
Malformed == http.body.kind = "malformed"
\* valid JSON without a truthy question member
NoQuestion == http.body.kind # "malformed" /\ Falsy(http.body.question)
LastResponse == http.responses[Len(http.responses)]
InvalidJsonMessage == JsonMessage(<<"Error: ", "Invalid JSON in request body">>)

\* C13: for a request other than OPTIONS, a body that is not valid JSON gets a
\* 500 response whose message says invalid JSON, a valid JSON body without a
\* truthy question gets a 400 response, and in both cases the pipeline is not
\* invoked.
C13_BadBodyRejected ==
    NonOptions /\ (Malformed \/ NoQuestion) =>
        /\ http.pc = "done"
        /\ ~http.invoked
        /\ Len(http.responses) = 1
        /\ Malformed => /\ LastResponse.status = 500
                        /\ LastResponse.body = InvalidJsonMessage
        /\ NoQuestion => LastResponse.status = 400

\* C14: malformed JSON and a missing question both get a response of the 4xx
\* class, and the response to the one differs from the response to the other.
C14_BadBodiesGetDistinct4xx ==
    /\ [](NonOptions /\ (Malformed \/ NoQuestion) /\ http.pc = "done"
            => LastResponse.status \in 400..499)
    /\ [][(/\ NonOptions /\ Malformed /\ http.pc = "done"
            /\ NonOptions' /\ NoQuestion' /\ http'.pc = "done"
            /\ http'.handler = http.handler)
           => LastResponse' # LastResponse]_vars

\* C15: every OPTIONS request is answered with status 204, no body and
\* Access-Control-Allow-Origin: *, without parsing the body and without
\* invoking the pipeline, the backend or the model.
C15_PreflightShortCircuits ==
    Requested /\ http.method = "OPTIONS" =>
        /\ http.pc = "done"
        /\ Len(http.responses) = 1
        /\ LastResponse.status = 204
        /\ LastResponse.body = NoBody
        /\ "Access-Control-Allow-Origin" \in DOMAIN LastResponse.headers
        /\ LastResponse.headers["Access-Control-Allow-Origin"] = "*"
        /\ ~http.parsed
        /\ ~http.invoked
        /\ http.log = <<>>

\* C16: every request (other than the body-less OPTIONS answer of C15) gets
\* exactly one response, a JSON envelope { message } carrying
\* Access-Control-Allow-Origin: *, with status 200 and the pipeline's result when
\* the pipeline returned and status 500 when the pipeline or another step raised.
StepRaised ==
    \/ http.raised # NoError
    \/ http.parsed /\ (ReqJsonThrows(http.body) \/ DestructureThrows(http.body))
C16_OneJsonEnvelopePerRequest ==
    /\ Len(http.responses) <= 1
    /\ NonOptions /\ http.pc = "done" =>
          /\ Len(http.responses) = 1
          /\ LastResponse.body.kind = "json"
          /\ "Access-Control-Allow-Origin" \in DOMAIN LastResponse.headers
          /\ LastResponse.headers["Access-Control-Allow-Origin"] = "*"
          /\ http.result # NoResult =>
                /\ LastResponse.status = 200
                /\ LastResponse.body.message = <<http.result>>
          /\ StepRaised => LastResponse.status = 500

CallNames == {"readSupplies", "resolve", "readSupplyRow", "readInventoryRows", "summarize"}
IssuedAtMostOnce == \A name \in CallNames : Cardinality(CallsIssued(name)) <= 1
SecondStageAfterFirst ==
    \A i \in CallsIssued("summarize") :
        \E j \in 1..(i - 1) : http.log[j].call = "resolve" /\ http.log[j].ok
NothingAfterFailure == \A i \in 1..(Len(http.log) - 1) : http.log[i].ok

\* C17: within one invocation of the pipeline each backend read and each model
\* call is issued at most once, the second-stage call only after the first-stage
\* call has returned, and once a backend read or a model call has failed no
\* further backend read or model call is issued for that request.
C17_NoRetryFailureTerminal ==
    /\ IssuedAtMostOnce
    /\ SecondStageAfterFirst
    /\ NothingAfterFailure

-----------------------------------------------------------------------------
(* Properties of the summary (checked under SpecSummary) *)

\* the lots the summary is meant to count: not deleted, of the resolved supply
LiveLots(supplyId) == {r \in inventory : r.supply_id = supplyId /\ ~r.is_deleted}

RECURSIVE QuantityOf(_)
QuantityOf(lots) ==
    IF lots = {} THEN 0
    ELSE LET r == CHOOSE q \in lots : TRUE
         IN  (IF r.quantity = NoQuantity THEN 0 ELSE r.quantity) + QuantityOf(lots \ {r})

SecondStageCalled == CallsIssued("summarize") # {}
ReadsSucceeded ==
    \A i \in 1..Len(http.log) : http.log[i].call # "summarize" => http.log[i].ok

\* C12: the summary passed to the second-stage call has quantity equal to the
\* sum of the quantities of the non-deleted lots of the resolved supply (a lot
\* without quantity counting 0) and length equal to the number of those lots;
\* stated for the invocations whose backend reads and first-stage call succeeded.
C12_SummaryCountsLiveLots ==
    SecondStageCalled /\ ReadsSucceeded =>
        /\ http.context.quantity = QuantityOf(LiveLots(http.supplyId))
        /\ http.context.length = Cardinality(LiveLots(http.supplyId))

-----------------------------------------------------------------------------
(* Properties of the process start (checked under SpecStartup) *)

Absent == {n \in EnvNames : proc.env[n] = Undefined}
NeverServes == proc.pc \in {"db", "llm", "failed"} /\ ~Requested

\* C18 as claimed: if the backend URL, the anonymous key or the model API key
\* is absent at startup, initialization fails, no backend client is created and
\* no request is ever served.
C18_NoClientWhenAnyValueAbsent ==
    Absent # {} => NeverServes /\ proc.clients = <<>>

\* C18, amended: if the backend URL, the anonymous key or the model API key is
\* absent at startup, module evaluation stops before the handler is registered
\* and no request is ever served; no backend client is created when the URL or
\* the anonymous key is absent, while an absent model API key is found only
\* after the database module has created its client.
C18_AbsentValueIsFatal ==
    Absent # {} =>
        /\ NeverServes
        /\ Absent \cap {"SUPABASE_URL", "SUPABASE_ANON_KEY"} # {} =>
              proc.clients = <<>> /\ proc.pc \in {"db", "failed"}
        /\ proc.pc = "failed" /\ proc.clients # <<>> =>
              proc.error = "Google AI API Key must be provided"

C18_Witness ==
    /\ Absent = {"GOOGLE_AI_API_KEY"}
    /\ proc.pc = "failed"
    /\ Len(proc.clients) = 1
    /\ ~Requested

\* a step that is a call of getInstance
GetInstanceCalled == proc'.calls = proc.calls + 1

\* C19: at most one facade instance exists per process: the first getInstance
\* call creates it, and every later call, whatever its arguments, returns that
\* same instance without creating a client or starting a session lookup.
C19_SingleFacadeInstance ==
    /\ [](proc.instances <= 1 /\ Len(proc.clients) <= 1)
    /\ [][GetInstanceCalled =>
            IF proc.calls = 0
            THEN /\ proc'.instances = 1
                 /\ proc'.instance # NULL
                 /\ proc'.got = proc'.instance
            ELSE /\ proc'.got = proc.instance
                 /\ proc'.instance = proc.instance
                 /\ proc'.instances = proc.instances
                 /\ proc'.clients = proc.clients
                 /\ proc'.lookups = proc.lookups
                 /\ UNCHANGED <<userId, initPc>>]_vars

C19_Witness ==
    /\ proc.db = "controller"
    /\ proc.calls = MaxCalls
    /\ proc.instances = 1
    /\ proc.got = proc.instance
    /\ proc.clients = <<[url |-> "set", key |-> "set"]>>
    /\ proc.lookups = 2

-----------------------------------------------------------------------------
(* update: the frame of a successful partial update *)

\* the table a partial update of row id is to leave: the named fields of
\* that row replaced, nothing else touched
Updated(rows, id, partialRow) ==
    {IF r.id = id THEN Merge(r, partialRow) ELSE r : r \in rows}

\* C21: a successful update(table, id, partialRow) changes only the fields
\* named in partialRow on the row whose identifier is id: every other field
\* of that row, every other row of the table and the number of rows are
\* unchanged.
C21_UpdateChangesOnlyNamedFields ==
    [][\A id \in Ids, data \in SuppliesPayloads :
          (/\ id \in IdsOf(supplies)
           /\ UpdateRowInTable(id, data)
           /\ call'.result.val) =>
              /\ supplies' = Updated(supplies, id, data)
              /\ Cardinality(supplies') = Cardinality(supplies)]_vars

-----------------------------------------------------------------------------
(* claim while the constructor's identity lookup is pending
   (checked under SpecIdentity) *)

\* C22: when a session with a user exists at facade construction, every
\* claim made on the facade stamps that user's identity as owner and never a
\* null owner, including a claim issued before the identity lookup started
\* by the constructor has completed.
C22_ClaimNeverStampsNullOwner ==
    [][\A id \in Ids :
          (hist.session # NULL /\ ClaimRowInTable(id) /\ call'.result.val) =>
              /\ call'.request.payload.user_id # NULL
              /\ call'.request.payload.user_id = hist.session
              /\ \A r \in inventory' \ inventory : r.user_id = hist.session]_vars

====
